---- MODULE Spec2Model ----
(***************************************************************************)
(* Token lifecycle of the HTTP access layer: ApiService (request,          *)
(* refreshToken, handleResponse), AuthService (login, register, logout)    *)
(* and the localStorage credential record they share.                      *)
(*                                                                         *)
(* JavaScript runs one task to completion, microtasks included, before the *)
(* next task starts.  One action of this module is therefore one task: a   *)
(* public call being issued, a fetch settling, a body read settling, a     *)
(* user action.  Everything the code does between two such events (the     *)
(* continuations of every awaiting caller included) is part of the action. *)
(***************************************************************************)
EXTENDS Integers, Sequences, FiniteSets

(* ---------------------------------------------------------------- bounds *)

\* public calls made in one behaviour
MaxCalls == 2
\* refresh operations started in one behaviour
MaxOps == 3
\* issuance responses (login, register, refresh) the backend produces
MaxIssue == 3
\* steps of the clock
MaxTicks == 1
\* interceptors of each kind registered in one behaviour
MaxInterceptors == 2
\* stored expiries and current times the near-expiry predicates are asked
\* about, in steps of half the refresh buffer
MaxExpirySteps == 10
MaxTimeSteps == 9

(* ------------------------------------------------------------- constants *)

\* localStorage.getItem returns null for a key that is not stored
Absent == 0

\* 5 * 60 * 1000 in shouldRefreshToken / isTokenExpiringSoon
RefreshBufferMs == 5 * 60 * 1000

\* the clock of the model advances in steps of the look-ahead buffer
TickMs == RefreshBufferMs

\* expires_in (seconds) of an issuance response
ExpiresInSet == {60, 600}

\* user_id of an issuance response
Users == {"u1"}

\* HTTP statuses the backend answers with
Statuses == {200, 400, 401, 403, 500}

\* bodies of a non-2xx response: {"detail": "X"}, {"detail": "X", "status":
\* 418}, a JSON object without detail, and a body that is no JSON
ErrBodies == {"detailString", "detailStatus", "noDetail", "unparseable"}

\* the status field of a body that carries one
BodyStatus == 418

\* bodies of a 2xx response
OkBodies == {"json", "unparseable"}

\* message of the TypeError a rejected fetch carries: the text Chromium
\* uses, and the text WebKit uses
FetchErrors == {"Failed to fetch", "Load failed"}

\* callbacks a caller may register
Callbacks == {"a"}

\* the closure AuthProvider registers when it mounts
ProviderCallback == "provider"

\* AuthProvider.login and AuthProvider.register, which await
\* AuthService.login / register
ProviderKinds == {"providerLogin", "providerRegister"}

NoCallback == "none"

\* request interceptors a caller may register: one that marks the request,
\* one that removes its Authorization header (and marks it)
RequestInterceptorSet == {"tag", "strip"}

\* response interceptors a caller may register
ResponseInterceptorSet == {"unwrap", "log"}

CallIds == 1..MaxCalls
OpIds == 1..MaxOps

(* ------------------------------------------------------- pure functions *)

RECURSIVE ToString(_)
\* Number.prototype.toString of a non-negative integer, as a digit sequence
ToString(n) == IF n < 10 THEN <<n>> ELSE Append(ToString(n \div 10), n % 10)

RECURSIVE ParseDigits(_, _)
ParseDigits(s, acc) ==
  IF s = <<>> THEN acc ELSE ParseDigits(Tail(s), acc * 10 + Head(s))

\* parseInt(s, 10) of a stored digit string
ParseInt(s) == ParseDigits(s, 0)

\* the stored value of a key that is not stored, for token_expires_at
NoExpiry == <<>>

Ok(status) == status >= 200 /\ status <= 299

EmptyStore ==
  [access_token |-> Absent, refresh_token |-> Absent,
   token_expires_at |-> NoExpiry, user |-> "none"]

\* shouldRefreshToken comparing with >= instead of >
ShouldRefreshTokenInclusive(store, t) ==
  IF store.token_expires_at = NoExpiry THEN FALSE
  ELSE t >= ParseInt(store.token_expires_at) - RefreshBufferMs

\* shouldRefreshToken answering true when no expiry is stored
ShouldRefreshTokenNoExpiry(store, t) ==
  IF store.token_expires_at = NoExpiry THEN TRUE
  ELSE t > ParseInt(store.token_expires_at) - RefreshBufferMs

\* shouldRefreshToken
ShouldRefreshToken(store, t) ==
  IF store.token_expires_at = NoExpiry THEN FALSE
  ELSE t > ParseInt(store.token_expires_at) - RefreshBufferMs

\* getAuthHeaders: 'Authorization': token ? `Bearer ${token}` : ''
GetAuthHeaders(store) ==
  [present |-> TRUE, bearer |-> store.access_token]

\* the headers request() builds before the interceptors run
BuildHeaders(requiresAuth, store) ==
  IF requiresAuth THEN GetAuthHeaders(store)
  ELSE [present |-> FALSE, bearer |-> Absent]

\* the default request interceptor
DefaultInterceptor(headers, store) ==
  IF store.access_token # Absent
  THEN [present |-> TRUE, bearer |-> store.access_token]
  ELSE headers

(* ---------------------------------------------------------------- errors *)

Err(type, msg, status) == [type |-> type, msg |-> msg, status |-> status]

NoErr == Err("none", "", 0)

\* parseApiError without its case 403
ParseApiErrorNo403(detail, msg, status) ==
  IF detail = "undefined"
  THEN Err("TypeError", "Cannot read properties of undefined", 0)
  ELSE LET st == IF status = 0 THEN 500 ELSE status
       IN CASE st = 401 -> Err("AuthenticationError", msg, 401)
            [] st = 400 -> Err("ValidationError", msg, 400)
            [] OTHER -> Err("AppError", msg, st)

\* parseApiError; detail is "string", "object" or "undefined", msg the text
\* of detail / detail.message
ParseApiError(detail, msg, status) ==
  IF detail = "undefined"
  THEN Err("TypeError", "Cannot read properties of undefined", 0)
  ELSE LET st == IF status = 0 THEN 500 ELSE status
       IN CASE st = 401 -> Err("AuthenticationError", msg, 401)
            [] st = 403 -> Err("AuthorizationError", msg, 403)
            [] st = 400 -> Err("ValidationError", msg, 400)
            [] OTHER -> Err("AppError", msg, st)

SessionExpired == ParseApiError("string", "Session expired. Please login again.", 401)

\* the ApiError a parseable body of a non-2xx response is; status 0 when the
\* body has no status field
Payload(body) ==
  CASE body = "detailString" -> [detail |-> "string", msg |-> "X", status |-> 0]
    [] body = "detailStatus" -> [detail |-> "string", msg |-> "X", status |-> BodyStatus]
    [] body = "noDetail" -> [detail |-> "undefined", msg |-> "", status |-> 0]

\* `HTTP error ${response.status}`
HttpErrorMessage(status) ==
  CASE status = 400 -> "HTTP error 400"
    [] status = 401 -> "HTTP error 401"
    [] status = 403 -> "HTTP error 403"
    [] status = 500 -> "HTTP error 500"
    [] OTHER -> "HTTP error"

\* handleResponse on a non-2xx response whose body read has settled
HandleErrorResponse(status, body) ==
  LET error == IF body = "unparseable"
               THEN [detail |-> "string", msg |-> HttpErrorMessage(status), status |-> status]
               ELSE [Payload(body) EXCEPT !.status = status]
  IN ParseApiError(error.detail, error.msg, error.status)

\* handleResponse on a 2xx response without the catch around response.json()
HandleOkResponseNoCatch(body) == body

\* handleResponse on a 2xx response whose body read has settled: the parsed
\* JSON, or {} when response.json() rejects
HandleOkResponse(body) == IF body = "json" THEN "json" ELSE "{}"

\* the catch block of request()
OuterCatch(e) ==
  IF e.type = "TypeError" /\ e.msg = "Failed to fetch"
  THEN Err("NetworkError", "Network connection failed", 0)
  ELSE e

(* ----------------------------------------------------------------- state *)

VARIABLES
  store,                  \* localStorage: the four credential keys
  isRefreshing,           \* ApiService.isRefreshing
  refreshPromise,         \* ApiService.refreshPromise: an op id, or 0 for null
  onUnauthorizedCallback, \* ApiService.onUnauthorizedCallback
  ops,                    \* the refresh operations (the async IIFE of refreshToken)
  calls,                  \* the public calls
  now,                    \* Date.now()
  issued,                 \* number of issuance responses the backend has produced
  requestInterceptors,    \* ApiService.requestInterceptors
  responseInterceptors,   \* ApiService.responseInterceptors
  isAuthenticated,        \* AuthProvider: useState(false)
  authUser,               \* AuthProvider: the user state, useState(null)
  isLoading,              \* AuthProvider: useState(true), false once mounted
  probe                   \* what the two near-expiry predicates returned

interceptors == <<requestInterceptors, responseInterceptors>>

provider == <<isAuthenticated, authUser, isLoading>>

vars == <<store, isRefreshing, refreshPromise, onUnauthorizedCallback,
          ops, calls, now, issued, interceptors, provider, probe>>

\* A refresh operation.  st: none, fetch (request in flight), body (2xx
\* received, response.json() pending), resolved, rejected.  rt: the refresh
\* token sent.  tok, expiresIn: the issuance of the 2xx response.  err: the
\* rejection.  cb: times the operation invoked the unauthorized callback.
\* invoked: the callbacks it invoked.  tok, err, cb and invoked describe the
\* settlement and are kept for the one state the settlement produces.
NoOp ==
  [st |-> "none", rt |-> Absent, tok |-> Absent, expiresIn |-> 0,
   err |-> NoErr, cb |-> 0, invoked |-> <<>>]

NoHeader == [present |-> FALSE, bearer |-> Absent]

\* neither predicate has been asked
NoProbe == [asked |-> FALSE, isTokenExpiringSoon |-> FALSE, shouldRefreshToken |-> FALSE]

\* A public call.  st: idle, awaitProactive (line 146), fetch (line 159),
\* await401 (line 163), body (response.json() of handleResponse), resolved,
\* rejected.  op: the refresh operation awaited.  hdr: the Authorization
\* header of the request in flight.  tok, expiresIn, user: the issuance a
\* 2xx login / register response carries.  sent: requests dispatched.
\* pro, rea: refresh operations awaited at line 146 / line 163.  from: where
\* the call was suspended when it settled.  body: the body of the response
\* that settled it.  trace: the marks the registered request interceptors
\* left on the request in flight.  applied: the response interceptors run on
\* the response that resolved it.  A settled call keeps its record
\* for the one state its settlement produces; then it is done.
NoCall ==
  [st |-> "idle", kind |-> "api", auth |-> FALSE, isRetry |-> FALSE, op |-> 0,
   status |-> 0, hdr |-> NoHeader, tok |-> Absent, expiresIn |-> 0,
   user |-> "none", sent |-> 0, pro |-> <<>>, rea |-> <<>>, from |-> "none",
   err |-> NoErr, value |-> "none", body |-> "none", trace |-> <<>>,
   applied |-> <<>>]

(* ------------------------------------------------- the service, as values *)

\* The mutable state the handlers work on.  ovf is set when a handler would
\* need more refresh operations than the model holds.
Cur ==
  [store |-> store, isRefreshing |-> isRefreshing,
   refreshPromise |-> refreshPromise, ops |-> ops, calls |-> calls,
   ovf |-> FALSE]

Settled(o) == o.st \in {"resolved", "rejected"}

Awaiting(c) == c.st \in {"awaitProactive", "await401"}

FreeOps(S) == {o \in OpIds : S.ops[o].st = "none"}

MinOf(W) == CHOOSE x \in W : \A y \in W : x <= y

\* removeItem for the three token keys only
ClearCredentialsKeepsUser(s) == [EmptyStore EXCEPT !.user = s.user]

\* the four removeItem calls of refreshToken (and of AuthService.logout)
ClearCredentials(s) == EmptyStore

\* a successful refresh that does not save the access token
StoreRefreshedNoAccess(s, tok, expiresIn, t) ==
  [s EXCEPT !.refresh_token = tok,
            !.token_expires_at = ToString(t + expiresIn * 1000)]

\* a successful refresh that does not save the new expiry
StoreRefreshedStaleExpiry(s, tok, expiresIn, t) ==
  [s EXCEPT !.access_token = tok, !.refresh_token = tok]

\* a successful refresh that also removes the stored user
StoreRefreshedDropsUser(s, tok, expiresIn, t) ==
  [s EXCEPT !.access_token = tok, !.refresh_token = tok,
            !.token_expires_at = ToString(t + expiresIn * 1000),
            !.user = "none"]

\* a successful refresh that does not save the new refresh token
StoreRefreshedKeepsRefreshToken(s, tok, expiresIn, t) ==
  [s EXCEPT !.access_token = tok,
            !.token_expires_at = ToString(t + expiresIn * 1000)]

\* the three setItem calls of a successful refresh
StoreRefreshed(s, tok, expiresIn, t) ==
  [s EXCEPT !.access_token = tok, !.refresh_token = tok,
            !.token_expires_at = ToString(t + expiresIn * 1000)]

\* login / register without saveUser
StoreLoginNoUser(s, tok, expiresIn, user, t) ==
  [access_token |-> tok, refresh_token |-> tok,
   token_expires_at |-> ToString(t + expiresIn * 1000), user |-> s.user]

\* saveToken, saveRefreshToken, saveTokenExpiry, saveUser of login / register
StoreLogin(s, tok, expiresIn, user, t) ==
  [access_token |-> tok, refresh_token |-> tok,
   token_expires_at |-> ToString(t + expiresIn * 1000), user |-> user]

\* the null AuthService.getTokenExpiry returns when no expiry is stored
NullExpiry == -1

\* AuthService.getTokenExpiry: return expiry ? parseInt(expiry, 10) : null
GetTokenExpiry(s) ==
  IF s.token_expires_at = NoExpiry THEN NullExpiry ELSE ParseInt(s.token_expires_at)

\* AuthService.isTokenExpiringSoon: if (!expiresAt) return true, which null
\* and 0 both satisfy; return Date.now() > expiresAt - 5 * 60 * 1000
IsTokenExpiringSoon(s, t) ==
  LET expiresAt == GetTokenExpiry(s)
  IN IF expiresAt = NullExpiry \/ expiresAt = 0 THEN TRUE
     ELSE t > expiresAt - RefreshBufferMs

\* AuthService.getToken: localStorage.getItem(AUTH_TOKEN)
GetToken(s) == s.access_token

\* AuthService.isAuthenticated: !!this.getToken()
IsAuthenticated(s) == GetToken(s) # Absent

\* if (this.onUnauthorizedCallback) this.onUnauthorizedCallback(): the
\* number of invocations
InvokeUnauthorized(cb) == IF cb # NoCallback THEN 1 ELSE 0

\* the same statement: the callbacks invoked
Invoked(cb) == IF cb # NoCallback THEN <<cb>> ELSE <<>>

\* refreshToken without its early return
JoinsPendingNever(S) == FALSE

\* the early return that tests the stored promise alone
JoinsPendingStale(S) == S.refreshPromise # 0

\* if (this.isRefreshing && this.refreshPromise) return this.refreshPromise
JoinsPending(S) == S.isRefreshing /\ S.refreshPromise # 0

\* the near-expiry check without its requiresAuth test
NeedsProactiveAnyCall(requiresAuth, isRetry, s, t) ==
  ~isRetry /\ ShouldRefreshToken(s, t)

\* if (requiresAuth && !isRetry && this.shouldRefreshToken())
NeedsProactive(requiresAuth, isRetry, s, t) ==
  requiresAuth /\ ~isRetry /\ ShouldRefreshToken(s, t)

\* the 401 handler without its !isRetry test
NeedsReactiveOnRetry(status, requiresAuth, isRetry) ==
  status = 401 /\ requiresAuth

\* if (response.status === 401 && requiresAuth && !isRetry)
NeedsReactive(status, requiresAuth, isRetry) ==
  status = 401 /\ requiresAuth /\ ~isRetry

\* the isRetry argument of the recursive request() call
RetryFlag == TRUE

\* one registered request interceptor applied to a request descriptor
RunInterceptor(i, config, s) ==
  CASE i = "default" -> [config EXCEPT !.headers = DefaultInterceptor(@, s)]
    [] i = "tag" -> [config EXCEPT !.trace = Append(@, i)]
    [] i = "strip" -> [config EXCEPT !.headers = NoHeader, !.trace = Append(@, i)]

RECURSIVE ApplyRequestInterceptorsReversed(_, _, _)
\* applyRequestInterceptors running the last registered interceptor first
ApplyRequestInterceptorsReversed(list, config, s) ==
  IF list = <<>> THEN config
  ELSE ApplyRequestInterceptorsReversed(
         SubSeq(list, 1, Len(list) - 1), RunInterceptor(list[Len(list)], config, s), s)

RECURSIVE ApplyRequestInterceptors(_, _, _)
\* applyRequestInterceptors: for (const interceptor of this.requestInterceptors)
\*   finalConfig = await interceptor(finalConfig)
ApplyRequestInterceptors(list, config, s) ==
  IF list = <<>> THEN config
  ELSE ApplyRequestInterceptors(Tail(list), RunInterceptor(Head(list), config, s), s)

\* the response interceptors handleResponse runs on a response: it reads
\* the body and never reads this.responseInterceptors
AppliedResponseInterceptors(list) == <<>>

\* request(): build the headers, run the interceptors, call fetch
Dispatch(S, c) ==
  LET call == S.calls[c]
      config == ApplyRequestInterceptors(requestInterceptors,
                  [headers |-> BuildHeaders(call.auth, S.store), trace |-> <<>>],
                  S.store)
  IN [S EXCEPT !.calls[c] =
        [call EXCEPT !.st = "fetch", !.op = 0, !.hdr = config.headers,
                     !.trace = config.trace, !.sent = @ + 1]]

\* the promise of a public call rejects
Reject(S, c, e) ==
  [S EXCEPT !.calls[c] =
     [@ EXCEPT !.st = "rejected", !.from = S.calls[c].st, !.op = 0, !.err = e,
               !.status = 0, !.hdr = NoHeader, !.trace = <<>>]]

\* refreshToken without this.isRefreshing = true
StartRefreshNoFlag(S) ==
  IF FreeOps(S) = {} THEN [S EXCEPT !.ovf = TRUE]
  ELSE LET o == MinOf(FreeOps(S))
           rt == S.store.refresh_token
       IN IF rt = Absent
          THEN [S EXCEPT
                 !.ops[o] = [NoOp EXCEPT !.st = "rejected",
                    !.err = Err("Error", "No refresh token available", 0)],
                 !.isRefreshing = FALSE,
                 !.refreshPromise = o]
          ELSE [S EXCEPT
                 !.ops[o] = [NoOp EXCEPT !.st = "fetch", !.rt = rt],
                 !.refreshPromise = o]

\* refreshToken without its test of the stored refresh token
StartRefreshSendsAnyway(S) ==
  IF FreeOps(S) = {} THEN [S EXCEPT !.ovf = TRUE]
  ELSE LET o == MinOf(FreeOps(S))
           rt == S.store.refresh_token
       IN [S EXCEPT
            !.ops[o] = [NoOp EXCEPT !.st = "fetch", !.rt = rt],
            !.isRefreshing = TRUE,
            !.refreshPromise = o]

\* the async IIFE of refreshToken up to its first await; the assignment of
\* its promise to refreshPromise follows the IIFE's synchronous part, and so
\* follows the finally block when the IIFE throws before awaiting
StartRefresh(S) ==
  IF FreeOps(S) = {} THEN [S EXCEPT !.ovf = TRUE]
  ELSE LET o == MinOf(FreeOps(S))
           rt == S.store.refresh_token
       IN IF rt = Absent
          THEN [S EXCEPT
                 !.ops[o] = [NoOp EXCEPT !.st = "rejected",
                    !.err = Err("Error", "No refresh token available", 0)],
                 !.isRefreshing = FALSE,
                 !.refreshPromise = o]
          ELSE [S EXCEPT
                 !.ops[o] = [NoOp EXCEPT !.st = "fetch", !.rt = rt],
                 !.isRefreshing = TRUE,
                 !.refreshPromise = o]

RECURSIVE Request(_, _, _), RefreshToken(_, _, _), Resume(_, _)

\* request(endpoint, config, requiresAuth, isRetry) up to its first
\* suspension
Request(S, c, isRetry) ==
  LET S1 == [S EXCEPT !.calls[c].isRetry = isRetry]
  IN IF S.ovf THEN S
     ELSE IF NeedsProactive(S1.calls[c].auth, isRetry, S1.store, now)
          THEN RefreshToken(S1, c, "awaitProactive")
          ELSE Dispatch(S1, c)

\* await this.refreshToken() by call c; via is where request() awaits it
RefreshToken(S, c, via) ==
  LET S1 == IF JoinsPending(S) THEN S ELSE StartRefresh(S)
      o == S1.refreshPromise
      S2 == [S1 EXCEPT !.calls[c] =
               [@ EXCEPT !.st = via, !.op = o, !.hdr = NoHeader, !.trace = <<>>,
                  !.pro = IF via = "awaitProactive" THEN Append(@, o) ELSE @,
                  !.rea = IF via = "await401" THEN Append(@, o) ELSE @]]
  IN IF S1.ovf THEN S1
     ELSE IF Settled(S2.ops[o]) THEN Resume(S2, c) ELSE S2

\* the continuation whose retry is built from the store as it was before the
\* refresh wrote its tokens
ResumeStaleRetry(S, c) ==
  LET call == S.calls[c]
      o == S.ops[call.op]
  IN CASE call.st = "awaitProactive" /\ o.st = "resolved" -> Dispatch(S, c)
       [] call.st = "awaitProactive" /\ o.st = "rejected" ->
            Reject(S, c, OuterCatch(o.err))
       [] call.st = "await401" /\ o.st = "resolved" ->
            [Request([S EXCEPT !.store = store], c, RetryFlag)
               EXCEPT !.store = S.store]
       [] call.st = "await401" /\ o.st = "rejected" ->
            Reject(S, c, OuterCatch(SessionExpired))
       [] OTHER -> S

\* the continuation that dispatches the primary request although the
\* proactive refresh failed
ResumeDispatchesAfterFailure(S, c) ==
  LET call == S.calls[c]
      o == S.ops[call.op]
  IN CASE call.st = "awaitProactive" -> Dispatch(S, c)
       [] call.st = "await401" /\ o.st = "resolved" -> Request(S, c, RetryFlag)
       [] call.st = "await401" /\ o.st = "rejected" ->
            Reject(S, c, OuterCatch(SessionExpired))
       [] OTHER -> S

\* the continuation of call c once the refresh it awaits has settled
Resume(S, c) ==
  LET call == S.calls[c]
      o == S.ops[call.op]
  IN CASE call.st = "awaitProactive" /\ o.st = "resolved" -> Dispatch(S, c)
       [] call.st = "awaitProactive" /\ o.st = "rejected" ->
            Reject(S, c, OuterCatch(o.err))
       [] call.st = "await401" /\ o.st = "resolved" -> Request(S, c, RetryFlag)
       [] call.st = "await401" /\ o.st = "rejected" ->
            Reject(S, c, OuterCatch(SessionExpired))
       [] OTHER -> S

RECURSIVE ResumeAll(_, _)
\* the continuations of every call that awaits a refresh which has settled
ResumeAll(S, W) ==
  IF W = {} \/ S.ovf THEN S
  ELSE LET c == MinOf(W) IN ResumeAll(Resume(S, c), W \ {c})

\* a settlement that resumes none of the calls awaiting the promise
SettleResumesNobody(S, o, st, e, s2, cb) ==
  [S EXCEPT
     !.store = s2,
     !.ops[o] = [@ EXCEPT !.st = st, !.err = e, !.cb = cb],
     !.isRefreshing = FALSE,
     !.refreshPromise = 0]

\* finally { this.isRefreshing = false; this.refreshPromise = null; } and
\* the settlement of the IIFE's promise
Settle(S, o, st, e, s2, cb) ==
  LET S1 == [S EXCEPT
               !.store = s2,
               !.ops[o] = [@ EXCEPT !.st = st, !.err = e, !.cb = cb],
               !.isRefreshing = FALSE,
               !.refreshPromise = 0]
  IN ResumeAll(S1, {c \in CallIds : Awaiting(S1.calls[c]) /\ S1.calls[c].op = o})

\* a call or a refresh that had settled before this task keeps only what
\* the program still holds of it: nothing of a call, the state of a promise
Forget(S) ==
  [S EXCEPT
     !.calls = [c \in CallIds |->
        IF calls[c].st \in {"resolved", "rejected"} /\ S.calls[c] = calls[c]
        THEN [NoCall EXCEPT !.st = "done"] ELSE S.calls[c]],
     !.ops = [o \in OpIds |->
        IF Settled(ops[o]) THEN [NoOp EXCEPT !.st = ops[o].st] ELSE S.ops[o]]]

Commit(S0) ==
  LET S == Forget(S0)
  IN /\ ~S.ovf
     /\ store' = S.store
     /\ isRefreshing' = S.isRefreshing
     /\ refreshPromise' = S.refreshPromise
     /\ ops' = S.ops
     /\ calls' = S.calls

FreeCalls == {c \in CallIds : calls[c].st = "idle"}

(* ------------------------------------------------------------------ Init *)

\* The module is loaded (the ApiService singleton constructed) in a browser
\* whose localStorage is empty, or holds the record a login wrote one tick
\* earlier: issuance 1, expiring after one of ExpiresInSet.
Init ==
  /\ now = TickMs
  /\ store \in {EmptyStore} \cup
       {StoreLogin(EmptyStore, 1, e, u, 0) : e \in ExpiresInSet, u \in Users}
  /\ isRefreshing = FALSE
  /\ refreshPromise = 0
  /\ onUnauthorizedCallback = NoCallback
  /\ ops = [o \in OpIds |-> NoOp]
  /\ calls = [c \in CallIds |-> NoCall]
  /\ issued = 1
  /\ requestInterceptors = <<"default">>
  /\ responseInterceptors = <<>>
  /\ isAuthenticated = FALSE
  /\ authUser = "none"
  /\ isLoading = TRUE
  /\ probe = NoProbe

(* --------------------------------------------------------------- actions *)

\* apiService.get / post / put / delete / postFormData (requiresAuth = true),
\* and the post of AuthService.login / register (requiresAuth = false)
Call(c, kind) ==
  /\ FreeCalls # {}
  /\ c = MinOf(FreeCalls)
  /\ Commit(Request(
       [Cur EXCEPT !.calls[c] = [NoCall EXCEPT !.kind = kind, !.auth = (kind = "api")]],
       c, FALSE))
  /\ UNCHANGED <<onUnauthorizedCallback, now, issued, interceptors, provider, probe>>

\* the fetch of a call resolves with a response of the given status; a 2xx
\* answer to login / register carries a new issuance
FetchResponse(c, status, expiresIn, user) ==
  LET call == calls[c]
      issues == call.kind # "api" /\ Ok(status)
  IN /\ call.st = "fetch"
     /\ issues => issued < MaxIssue
     /\ IF NeedsReactive(status, call.auth, call.isRetry)
        THEN Commit(RefreshToken(Cur, c, "await401"))
        ELSE Commit([Cur EXCEPT !.calls[c] =
               [@ EXCEPT !.st = "body", !.status = status, !.hdr = NoHeader,
                  !.trace = <<>>,
                  !.tok = IF issues THEN issued + 1 ELSE Absent,
                  !.expiresIn = IF issues THEN expiresIn ELSE 0,
                  !.user = IF issues THEN user ELSE "none"]])
     /\ issued' = IF issues THEN issued + 1 ELSE issued
     /\ UNCHANGED <<onUnauthorizedCallback, now, interceptors, provider, probe>>

\* the fetch of a call rejects with a TypeError
FetchReject(c, msg) ==
  /\ calls[c].st = "fetch"
  /\ Commit(Reject(Cur, c, OuterCatch(Err("TypeError", msg, 0))))
  /\ UNCHANGED <<onUnauthorizedCallback, now, issued, interceptors, provider, probe>>

\* handleResponse: response.json() of a non-2xx response settles
ErrorBody(c, body) ==
  LET call == calls[c]
  IN /\ call.st = "body"
     /\ ~Ok(call.status)
     /\ Commit([Reject(Cur, c, OuterCatch(HandleErrorResponse(call.status, body)))
                  EXCEPT !.calls[c].status = call.status, !.calls[c].body = body])
     /\ UNCHANGED <<onUnauthorizedCallback, now, issued, interceptors, provider, probe>>

\* handleResponse: response.json() of a 2xx response settles; the call
\* resolves, and AuthService.login / register then save the credentials;
\* AuthProvider.login / register then setUser and setIsAuthenticated(true).
\* The backend answers a 2xx to login / register with an AuthResponse body.
OkBody(c, body) ==
  LET call == calls[c]
      S == [Cur EXCEPT !.calls[c] =
              [@ EXCEPT !.st = "resolved", !.from = "body", !.body = body,
                        !.value = HandleOkResponse(body),
                        !.applied = AppliedResponseInterceptors(responseInterceptors)]]
  IN /\ call.st = "body"
     /\ Ok(call.status)
     /\ call.kind # "api" => body = "json"
     /\ Commit(IF call.kind = "api" THEN S
               ELSE [S EXCEPT !.store =
                       StoreLogin(S.store, call.tok, call.expiresIn, call.user, now)])
     /\ IF call.kind \in ProviderKinds
        THEN isAuthenticated' = TRUE /\ authUser' = call.user
        ELSE UNCHANGED <<isAuthenticated, authUser>>
     /\ UNCHANGED <<onUnauthorizedCallback, now, issued, interceptors, isLoading, probe>>

\* the fetch of refreshToken resolves with a non-2xx response: the
\* credentials are removed and the registered callback runs; AuthProvider's
\* callback is setUser(null); setIsAuthenticated(false)
RefreshRefused(o, status) ==
  /\ ops[o].st = "fetch"
  /\ ~Ok(status)
  /\ Commit([Settle(Cur, o, "rejected", Err("Error", "Token refresh failed", 0),
                    ClearCredentials(store),
                    InvokeUnauthorized(onUnauthorizedCallback))
               EXCEPT !.ops[o].invoked = Invoked(onUnauthorizedCallback)])
  /\ IF onUnauthorizedCallback = ProviderCallback
     THEN isAuthenticated' = FALSE /\ authUser' = "none"
     ELSE UNCHANGED <<isAuthenticated, authUser>>
  /\ UNCHANGED <<onUnauthorizedCallback, now, issued, interceptors, isLoading, probe>>

\* the fetch of refreshToken resolves with a 2xx response: a new issuance
RefreshResponse(o, expiresIn) ==
  /\ ops[o].st = "fetch"
  /\ issued < MaxIssue
  /\ Commit([Cur EXCEPT !.ops[o] =
       [@ EXCEPT !.st = "body", !.tok = issued + 1, !.expiresIn = expiresIn]])
  /\ issued' = issued + 1
  /\ UNCHANGED <<onUnauthorizedCallback, now, interceptors, provider, probe>>

\* the fetch of refreshToken rejects with a TypeError
RefreshReject(o, msg) ==
  /\ ops[o].st = "fetch"
  /\ Commit(Settle(Cur, o, "rejected", Err("TypeError", msg, 0), store, 0))
  /\ UNCHANGED <<onUnauthorizedCallback, now, issued, interceptors, provider, probe>>

\* response.json() of the refresh response settles
RefreshBody(o, body) ==
  /\ ops[o].st = "body"
  /\ IF body = "json"
     THEN Commit(Settle(Cur, o, "resolved", NoErr,
                        StoreRefreshed(store, ops[o].tok, ops[o].expiresIn, now), 0))
     ELSE Commit(Settle([Cur EXCEPT !.ops[o].tok = Absent], o, "rejected",
                        Err("SyntaxError", "Unexpected token", 0), store, 0))
  /\ UNCHANGED <<onUnauthorizedCallback, now, issued, interceptors, provider, probe>>

\* AuthService.logout
Logout ==
  /\ Commit([Cur EXCEPT !.store = ClearCredentials(store)])
  /\ UNCHANGED <<onUnauthorizedCallback, now, issued, interceptors, provider, probe>>

\* ApiService.setOnUnauthorized
SetOnUnauthorized(cb) ==
  /\ onUnauthorizedCallback # cb
  /\ onUnauthorizedCallback' = cb
  /\ Commit(Cur)
  /\ UNCHANGED <<now, issued, interceptors, provider, probe>>

\* time passes
Tick ==
  /\ now + TickMs <= (MaxTicks + 1) * TickMs
  /\ now' = now + TickMs
  /\ Commit(Cur)
  /\ UNCHANGED <<onUnauthorizedCallback, issued, interceptors, provider, probe>>

Next ==
  \/ \E c \in CallIds, k \in {"api", "login", "register"} : Call(c, k)
  \/ \E c \in CallIds, s \in Statuses, e \in ExpiresInSet, u \in Users :
       FetchResponse(c, s, e, u)
  \/ \E c \in CallIds, m \in FetchErrors : FetchReject(c, m)
  \/ \E c \in CallIds, b \in ErrBodies : ErrorBody(c, b)
  \/ \E c \in CallIds, b \in OkBodies : OkBody(c, b)
  \/ \E o \in OpIds, s \in Statuses : RefreshRefused(o, s)
  \/ \E o \in OpIds, e \in ExpiresInSet : RefreshResponse(o, e)
  \/ \E o \in OpIds, m \in FetchErrors : RefreshReject(o, m)
  \/ \E o \in OpIds, b \in OkBodies : RefreshBody(o, b)
  \/ Logout
  \/ \E cb \in Callbacks : SetOnUnauthorized(cb)
  \/ Tick

Spec == Init /\ [][Next]_vars

(* ---------------------------------------------- registering interceptors *)

\* ApiService.addRequestInterceptor
AddRequestInterceptor(i) ==
  /\ Len(requestInterceptors) < 1 + MaxInterceptors
  /\ requestInterceptors' = Append(requestInterceptors, i)
  /\ Commit(Cur)
  /\ UNCHANGED <<responseInterceptors, onUnauthorizedCallback, now, issued,
                 provider, probe>>

\* ApiService.addResponseInterceptor
AddResponseInterceptor(i) ==
  /\ Len(responseInterceptors) < MaxInterceptors
  /\ responseInterceptors' = Append(responseInterceptors, i)
  /\ Commit(Cur)
  /\ UNCHANGED <<requestInterceptors, onUnauthorizedCallback, now, issued,
                 provider, probe>>

\* The service with interceptors being registered while authenticated calls
\* are made, answered, refreshed and retried.
NextInterceptors ==
  \/ \E c \in CallIds : Call(c, "api")
  \/ \E c \in CallIds, s \in {200, 401}, u \in Users : FetchResponse(c, s, 600, u)
  \/ \E c \in CallIds : ErrorBody(c, "detailString")
  \/ \E c \in CallIds : OkBody(c, "json")
  \/ \E o \in OpIds : RefreshResponse(o, 600)
  \/ \E o \in OpIds : RefreshBody(o, "json")
  \/ \E i \in RequestInterceptorSet : AddRequestInterceptor(i)
  \/ \E i \in ResponseInterceptorSet : AddResponseInterceptor(i)

SpecInterceptors == Init /\ [][NextInterceptors]_vars

(* ------------------------------------------------- transport that settles *)

\* the fetch of call c settles
FetchSettles(c) ==
  \/ \E s \in {200, 401}, u \in Users : FetchResponse(c, s, 600, u)
  \/ FetchReject(c, "Failed to fetch")

\* the body read of call c settles
BodySettles(c) == ErrorBody(c, "detailString") \/ OkBody(c, "json")

\* the fetch of refresh o settles
RefreshFetchSettles(o) ==
  \/ RefreshRefused(o, 401)
  \/ RefreshResponse(o, 600)
  \/ RefreshReject(o, "Failed to fetch")

\* the body read of refresh o settles
RefreshBodySettles(o) == \E b \in OkBodies : RefreshBody(o, b)

\* The service with authenticated calls being made while the user may log
\* out, each fetch and each body read settling one way or another.
NextLive ==
  \/ \E c \in CallIds : Call(c, "api")
  \/ \E c \in CallIds : FetchSettles(c)
  \/ \E c \in CallIds : BodySettles(c)
  \/ \E o \in OpIds : RefreshFetchSettles(o)
  \/ \E o \in OpIds : RefreshBodySettles(o)
  \/ Logout

\* Every fetch and every body read eventually settles: a promise the
\* browser has handed out stays pending until it settles, so each of these
\* steps stays enabled until it is taken.
TransportSettles ==
  /\ \A c \in CallIds : WF_vars(FetchSettles(c)) /\ WF_vars(BodySettles(c))
  /\ \A o \in OpIds : WF_vars(RefreshFetchSettles(o)) /\ WF_vars(RefreshBodySettles(o))

SpecLive == Init /\ [][NextLive]_vars /\ TransportSettles

(* ------------------------------------------- replacing the callback *)

\* the callbacks setOnUnauthorized is called with, one after the other
Hooks == {"a", "b"}

\* The service with the unauthorized callback being registered and replaced
\* while authenticated calls are made, answered, refreshed and retried.
NextHooks ==
  \/ \E c \in CallIds : Call(c, "api")
  \/ \E c \in CallIds, s \in {200, 401}, u \in Users : FetchResponse(c, s, 600, u)
  \/ \E c \in CallIds : ErrorBody(c, "detailString")
  \/ \E c \in CallIds : OkBody(c, "json")
  \/ \E o \in OpIds : RefreshRefused(o, 401)
  \/ \E o \in OpIds : RefreshResponse(o, 600)
  \/ \E o \in OpIds : RefreshReject(o, "Failed to fetch")
  \/ \E o \in OpIds : RefreshBody(o, "json")
  \/ \E cb \in Hooks : SetOnUnauthorized(cb)

SpecHooks == Init /\ [][NextHooks]_vars

(* ------------------------------------------- the near-expiry predicates *)

\* half the refresh buffer
StepMs == RefreshBufferMs \div 2

\* what token_expires_at may hold: nothing, or a time in milliseconds
StoredExpiries == {NoExpiry} \cup {ToString(k * StepMs) : k \in 0..MaxExpirySteps}

\* Date.now()
Times == {k * StepMs : k \in 0..MaxTimeSteps}

\* The service and the provider as constructed, over a store with any of
\* the stored expiries, at any of the times.
InitExpiry ==
  /\ now \in Times
  /\ store \in {[StoreLogin(EmptyStore, 1, 0, u, 0) EXCEPT !.token_expires_at = x] :
                  x \in StoredExpiries, u \in Users}
  /\ isRefreshing = FALSE
  /\ refreshPromise = 0
  /\ onUnauthorizedCallback = NoCallback
  /\ ops = [o \in OpIds |-> NoOp]
  /\ calls = [c \in CallIds |-> NoCall]
  /\ issued = 1
  /\ requestInterceptors = <<"default">>
  /\ responseInterceptors = <<>>
  /\ isAuthenticated = FALSE
  /\ authUser = "none"
  /\ isLoading = TRUE
  /\ probe = NoProbe

\* authService.isTokenExpiringSoon() and apiService.shouldRefreshToken() are
\* both evaluated
Probe ==
  /\ ~probe.asked
  /\ probe' = [asked |-> TRUE,
               isTokenExpiringSoon |-> IsTokenExpiringSoon(store, now),
               shouldRefreshToken |-> ShouldRefreshToken(store, now)]
  /\ UNCHANGED <<store, isRefreshing, refreshPromise, onUnauthorizedCallback,
                 ops, calls, now, issued, interceptors, provider>>

NextExpiry == Probe

SpecExpiry == InitExpiry /\ [][NextExpiry]_vars

(* ----------------------------------------------------------- AuthProvider *)

\* the effect AuthProvider runs once mounted: it reads the stored token and
\* user and registers its unauthorized callback
Mount ==
  /\ isLoading
  /\ isAuthenticated' = IsAuthenticated(store)
  /\ authUser' = IF GetToken(store) # Absent /\ store.user # "none"
                 THEN store.user ELSE "none"
  /\ isLoading' = FALSE
  /\ onUnauthorizedCallback' = ProviderCallback
  /\ Commit(Cur)
  /\ UNCHANGED <<now, issued, interceptors, probe>>

\* AuthProvider.logout
ProviderLogout ==
  /\ Commit([Cur EXCEPT !.store = ClearCredentials(store)])
  /\ isAuthenticated' = FALSE
  /\ authUser' = "none"
  /\ UNCHANGED <<onUnauthorizedCallback, now, issued, interceptors, isLoading, probe>>

\* One tab of the application: the provider mounts, the pages log in,
\* register and log out through it and make authenticated calls, which are
\* answered, refreshed and retried.  The effects of the provider's children
\* run before its own, so calls may precede Mount.  Other tabs, and with
\* them the provider's storage listener, are left out.
NextProvider ==
  \/ Mount
  \/ \E c \in CallIds, k \in {"api"} \cup ProviderKinds : Call(c, k)
  \/ \E c \in CallIds, s \in {200, 401}, u \in Users : FetchResponse(c, s, 600, u)
  \/ \E c \in CallIds : FetchReject(c, "Failed to fetch")
  \/ \E c \in CallIds : ErrorBody(c, "detailString")
  \/ \E c \in CallIds : OkBody(c, "json")
  \/ \E o \in OpIds : RefreshRefused(o, 401)
  \/ \E o \in OpIds : RefreshResponse(o, 600)
  \/ \E o \in OpIds : RefreshReject(o, "Failed to fetch")
  \/ \E o \in OpIds : RefreshBody(o, "json")
  \/ ProviderLogout

SpecProvider == Init /\ [][NextProvider]_vars

(* ---------------------------------------------------------------- claims *)

\* refresh operations whose request is in flight or whose response is read
InFlight == {o \in OpIds : ops[o].st \in {"fetch", "body"}}

\* the refresh settled in the task that produced this state
JustResolved(o) == ops[o].st = "resolved" /\ ops[o].tok # Absent
JustRejected(o) == ops[o].st = "rejected" /\ ops[o].err # NoErr

ProactiveWaiters == {c \in CallIds : calls[c].st = "awaitProactive"}

\* the stored expiry lies in the past
Expired(s, t) == s.token_expires_at # NoExpiry /\ t > ParseInt(s.token_expires_at)

\* C1: at most one refresh is in flight in every reachable state; every
\* call that awaits a refresh, by the near-expiry check or by the 401
\* handler, awaits that one operation, which is the one refreshPromise
\* holds while isRefreshing is set.
C1_SingleFlight ==
  /\ Cardinality(InFlight) <= 1
  /\ Cardinality({o \in OpIds : ops[o].st = "fetch"}) <= 1
  /\ \A c \in CallIds : Awaiting(calls[c]) => calls[c].op \in InFlight
  /\ InFlight # {} => isRefreshing /\ refreshPromise \in InFlight

C1_Witness ==
  \E c1, c2 \in CallIds :
    /\ calls[c1].st = "awaitProactive"
    /\ calls[c2].st = "await401"
    /\ calls[c1].op = calls[c2].op
    /\ ops[calls[c1].op].st = "fetch"

\* C2: an authenticated call issued while the stored expiry is in the past
\* and a refresh token is stored waits, undispatched, for the one refresh in
\* flight, and starts that refresh only when none is in flight; so N >= 2
\* such calls wait for one and the same refresh request, and none of them
\* has dispatched its primary request while they wait.
C2_OneRefreshForExpired ==
  [][ /\ \A c \in CallIds :
           ( /\ calls[c].st = "idle" /\ calls'[c].st # "idle" /\ calls'[c].auth
             /\ Expired(store, now) /\ store.refresh_token # Absent )
           => /\ calls'[c].st = "awaitProactive"
              /\ calls'[c].sent = 0
              /\ InFlight' = {calls'[c].op}
              /\ InFlight # {} => InFlight' = InFlight
      /\ Cardinality(ProactiveWaiters') >= 2 =>
           \E o \in OpIds :
             /\ InFlight' = {o}
             /\ \A c \in ProactiveWaiters' : calls'[c].op = o /\ calls'[c].sent = 0
    ]_vars

C2_Witness ==
  /\ Cardinality(ProactiveWaiters) >= 2
  /\ Expired(store, now)
  /\ store.refresh_token # Absent
  /\ \E o \in OpIds : ops[o].st = "fetch" /\ \A c \in ProactiveWaiters : calls[c].op = o

\* C3: the calls that awaited a refresh at the near-expiry check share its
\* outcome.  In the state the settlement produces, every one of them has
\* dispatched its primary request once, carrying the access token that
\* refresh issued, if the refresh resolved; and every one of them is
\* rejected without having dispatched anything, if the refresh rejected.
C3_SharedOutcome ==
  \A c \in CallIds :
    calls[c].pro # <<>> =>
      LET o == calls[c].pro[1]
      IN /\ JustResolved(o) =>
              /\ calls[c].st = "fetch"
              /\ calls[c].sent = 1
              /\ calls[c].hdr = [present |-> TRUE, bearer |-> ops[o].tok]
         /\ JustRejected(o) =>
              /\ calls[c].st = "rejected"
              /\ calls[c].from = "awaitProactive"
              /\ calls[c].sent = 0
         /\ calls[c].st = "awaitProactive" => o \in InFlight

C3_Witness ==
  \E c1, c2 \in CallIds, o \in OpIds :
    /\ c1 # c2
    /\ calls[c1].pro = <<o>> /\ calls[c2].pro = <<o>>
    /\ JustResolved(o)
    /\ calls[c1].st = "fetch" /\ calls[c2].st = "fetch"
    /\ calls[c1].hdr.bearer = ops[o].tok /\ calls[c2].hdr.bearer = ops[o].tok

\* C4 (as claimed): a call dispatches its primary request at most twice and
\* joins at most one refresh from its 401 handler; a call whose retry was
\* answered 401 rejects with AuthenticationError.
C4_RetryOnce ==
  \A c \in CallIds :
    /\ calls[c].sent <= 2
    /\ Len(calls[c].rea) <= 1
    /\ calls[c].isRetry => calls[c].sent = 2 \/ calls[c].st \in {"rejected", "resolved"}
    /\ ( calls[c].st = "rejected" /\ calls[c].isRetry /\ calls[c].status = 401 )
         => calls[c].err.type = "AuthenticationError"

\* C5 (as claimed): one public call never starts or joins more than one
\* refresh operation, counting the near-expiry check and the 401 handler.
C5_OneRefreshPerCall ==
  \A c \in CallIds : Len(calls[c].pro) + Len(calls[c].rea) <= 1

\* C5 (amended): one public call starts or joins at most one refresh at the
\* near-expiry check and at most one in its 401 handler, so at most two in
\* all; a first-attempt 401 makes it start or join exactly one in the 401
\* handler.
C5_OneRefreshPerTrigger ==
  \A c \in CallIds :
    /\ Len(calls[c].pro) <= 1
    /\ Len(calls[c].rea) <= 1
    /\ ( calls[c].st = "await401" \/ calls[c].isRetry \/ calls[c].from = "await401" )
         => Len(calls[c].rea) = 1

C5_Witness ==
  \E c \in CallIds :
    /\ Len(calls[c].pro) = 1 /\ Len(calls[c].rea) = 1
    /\ calls[c].isRetry /\ calls[c].sent = 2

\* C6 (as claimed): after any failed refresh all four credential fields are
\* absent from the store.
C6_ClearedAfterFailure ==
  \A o \in OpIds : JustRejected(o) => store = EmptyStore

\* C7 (as claimed): every refresh that ends in failure has invoked the
\* registered unauthorized callback exactly once.
C7_CallbackOnEveryFailure ==
  \A o \in OpIds :
    JustRejected(o) /\ onUnauthorizedCallback # NoCallback => ops[o].cb = 1

\* C8 (as claimed): when several authenticated calls fail because the
\* refresh their 401 led to has failed, the unauthorized callback has been
\* invoked exactly once.
C8_OnceForSeveralCalls ==
  \A o \in OpIds, c1, c2 \in CallIds :
    ( /\ c1 # c2
      /\ JustRejected(o) /\ onUnauthorizedCallback # NoCallback
      /\ calls[c1].st = "rejected" /\ calls[c1].rea = <<o>>
      /\ calls[c2].st = "rejected" /\ calls[c2].rea = <<o>> )
    => ops[o].cb = 1

\* C9 (as claimed): every call that awaited a refresh which failed rejects
\* with the session-expired AuthenticationError, whether it awaited at the
\* near-expiry check or in the 401 handler.
C9_SessionExpiredForWaiters ==
  \A c \in CallIds :
    calls[c].st = "rejected" /\ calls[c].from \in {"awaitProactive", "await401"}
      => calls[c].err = SessionExpired

\* C10 (as claimed): a retry answered with any non-2xx status rejects the
\* call with the session-expired AuthenticationError.
C10_RetryFailureIsSessionExpired ==
  \A c \in CallIds :
    ( calls[c].st = "rejected" /\ calls[c].isRetry /\ calls[c].from = "body" )
      => calls[c].err = SessionExpired

\* a login or register call resolves in this step and saves its credentials
LoginSaves ==
  \E c \in CallIds :
    calls[c].kind # "api" /\ calls[c].st = "body" /\ calls'[c].st = "resolved"

\* a refresh in flight settles in this step
Settles(o) == ops[o].st \in {"fetch", "body"} /\ Settled(ops'[o])

\* C11 (as claimed): while the access token is absent from the store (logout
\* has run) it stays absent until a login or register succeeds; a refresh
\* settling does not re-create it.
C11_AbsentUntilLogin ==
  [][ (store.access_token = Absent /\ store'.access_token # Absent) => LoginSaves ]_vars

\* C12 (as claimed): when the store holds credentials a login or register
\* saved after a refresh was started, the settlement of that refresh leaves
\* the store as it is.
C12_RefreshKeepsLogin ==
  [][ \A o \in OpIds :
        ( /\ Settles(o)
          /\ store.refresh_token # Absent
          /\ store.refresh_token # ops[o].rt )
        => store' = store ]_vars

\* public call c is issued in this step with requiresAuth = true
IssuedAuth(c) == calls[c].st = "idle" /\ calls'[c].st # "idle" /\ calls'[c].auth

\* no refresh operation is started in this step
NoRefreshStarted == \A o \in OpIds : ops[o].st = "none" => ops'[o].st = "none"

\* C13: an authenticated call issued when now > expiresAt - 5 min starts or
\* joins a refresh and waits for it, nothing dispatched; one issued when
\* now <= expiresAt - 5 min dispatches its primary request at once and
\* starts no refresh.  A call that waited has dispatched only if the refresh
\* it waited for resolved.
C13_ProactiveWindow ==
  [][ /\ \A c \in CallIds :
           IssuedAuth(c) /\ store.token_expires_at # NoExpiry =>
             IF now > ParseInt(store.token_expires_at) - RefreshBufferMs
             THEN /\ calls'[c].st = "awaitProactive"
                  /\ calls'[c].sent = 0
                  /\ Len(calls'[c].pro) = 1
                  /\ ops'[calls'[c].pro[1]].st \in {"fetch", "body"}
             ELSE /\ calls'[c].st = "fetch"
                  /\ calls'[c].sent = 1
                  /\ calls'[c].pro = <<>>
                  /\ NoRefreshStarted
      /\ \A c \in CallIds :
           calls'[c].pro # <<>> /\ calls'[c].sent >= 1 =>
             ops'[calls'[c].pro[1]].st = "resolved"
    ]_vars

C13_Witness ==
  \E c \in CallIds, o \in OpIds :
    /\ calls[c].auth /\ calls[c].st = "fetch" /\ calls[c].sent = 1
    /\ calls[c].pro = <<o>> /\ calls[c].rea = <<>>
    /\ ops[o].st = "resolved"
    /\ ~ShouldRefreshToken(store, now)

\* C14: an authenticated call issued while no expiry is stored dispatches
\* its primary request at once, without starting or joining a refresh; a
\* call that has not refreshed at the near-expiry check starts or joins a
\* refresh only in the task that receives the response to its dispatched
\* first attempt (the 401 handler).
C14_NoExpiryNoProactive ==
  [][ /\ \A c \in CallIds :
           IssuedAuth(c) /\ store.token_expires_at = NoExpiry =>
             /\ calls'[c].st = "fetch"
             /\ calls'[c].sent = 1
             /\ calls'[c].pro = <<>> /\ calls'[c].rea = <<>>
             /\ NoRefreshStarted
      /\ \A c \in CallIds :
           calls'[c].pro = <<>> /\ calls[c].rea = <<>> /\ calls'[c].rea # <<>> =>
             /\ calls[c].st = "fetch"
             /\ calls[c].sent = 1
             /\ ~calls[c].isRetry
    ]_vars

C14_Witness ==
  \E c \in CallIds :
    /\ calls[c].auth /\ calls[c].pro = <<>> /\ Len(calls[c].rea) = 1
    /\ calls[c].sent = 1
    /\ calls[c].st = "rejected" /\ calls[c].from = "await401"
    /\ store.token_expires_at = NoExpiry
    /\ ops[calls[c].rea[1]].err.msg = "No refresh token available"

\* refresh o resolves in this step
Resolves(o) == ops[o].st = "body" /\ ops'[o].st = "resolved"

\* C15: the task in which a refresh resolves leaves the store holding the
\* access token and refresh token of that issuance and the expiry
\* now + expires_in * 1000; and no state any task can observe holds an
\* access token without the refresh token of the same issuance, or without
\* an expiry.
C15_AtomicRefreshWrite ==
  [][ /\ \A o \in OpIds :
           Resolves(o) =>
             /\ store'.access_token = ops[o].tok
             /\ store'.refresh_token = ops[o].tok
             /\ ParseInt(store'.token_expires_at) = now + ops[o].expiresIn * 1000
      /\ store'.access_token = store'.refresh_token
      /\ store'.access_token = Absent <=> store'.token_expires_at = NoExpiry
    ]_vars

C15_Witness ==
  \E o \in OpIds :
    /\ JustResolved(o)
    /\ store.access_token = ops[o].tok
    /\ store.refresh_token = ops[o].tok
    /\ ParseInt(store.token_expires_at) = now + ops[o].expiresIn * 1000
    /\ now > TickMs

\* C16: the task in which a refresh resolves leaves the stored user as it
\* was.
C16_UserUnchanged ==
  [][ \A o \in OpIds : Resolves(o) => store'.user = store.user ]_vars

C16_Witness ==
  \E o \in OpIds :
    /\ JustResolved(o)
    /\ store.access_token = ops[o].tok
    /\ store.user \in Users

\* the error kinds of src/utils/errors.ts
TypedErrors ==
  {"AuthenticationError", "AuthorizationError", "ValidationError",
   "NetworkError", "AppError"}

\* C17 (as claimed): every rejection of a public call carries one of the
\* typed application errors.
C17_TypedErrorsOnly ==
  \A c \in CallIds : calls[c].st = "rejected" => calls[c].err.type \in TypedErrors

\* the error the taxonomy gives status s with message m
Taxonomy(s, m) ==
  CASE s = 400 -> Err("ValidationError", m, 400)
    [] s = 401 -> Err("AuthenticationError", m, 401)
    [] s = 403 -> Err("AuthorizationError", m, 403)
    [] s = 500 -> Err("AppError", m, 500)

\* C18: a call rejected by a response of status 400, 401, 403 or 500 whose
\* body is {"detail": X}, X a string, rejects with the error kind of the
\* taxonomy for that status, carrying the status and the message X.
C18_ErrorMapping ==
  \A c \in CallIds :
    ( /\ calls[c].st = "rejected" /\ calls[c].from = "body"
      /\ calls[c].body = "detailString"
      /\ calls[c].status \in {400, 401, 403, 500} )
    => calls[c].err = Taxonomy(calls[c].status, "X")

C18_Witness ==
  \E c \in CallIds :
    /\ calls[c].st = "rejected" /\ calls[c].from = "body"
    /\ calls[c].body = "detailString" /\ calls[c].status = 403
    /\ calls[c].err = Err("AuthorizationError", "X", 403)

\* C19 (as claimed): a call that rejects because a fetch made on its behalf
\* (its primary request, its retry, or the refresh it awaited) rejected with
\* a TypeError rejects with NetworkError.
C19_TransportIsNetworkError ==
  \A c \in CallIds :
    ( /\ calls[c].st = "rejected"
      /\ \/ calls[c].from = "fetch"
         \/ /\ calls[c].from = "awaitProactive"
            /\ ops[calls[c].pro[1]].err.type = "TypeError"
         \/ /\ calls[c].from = "await401"
            /\ ops[calls[c].rea[1]].err.type = "TypeError" )
    => calls[c].err.type = "NetworkError"

\* C20 (as claimed): a request dispatched in this step carries
\* Authorization: Bearer <stored access token> if and only if an access
\* token is stored and the call requires auth.
C20_BearerIffAuth ==
  [][ \A c \in CallIds :
        calls'[c].st = "fetch" /\ calls'[c].sent = calls[c].sent + 1 =>
          ( ( /\ calls'[c].hdr.present
              /\ calls'[c].hdr.bearer # Absent
              /\ calls'[c].hdr.bearer = store'.access_token )
            <=> ( store'.access_token # Absent /\ calls'[c].auth ) )
    ]_vars

\* C21: the task in which a login or register call resolves leaves the
\* store holding exactly the access token and refresh token of its response,
\* the expiry now + expires_in * 1000, and the user of the response; the
\* task in which a login or register call rejects leaves the store as it
\* was.
C21_LoginSavesResponse ==
  [][ \A c \in CallIds :
        calls[c].kind # "api" /\ calls[c].st \in {"fetch", "body"} =>
          /\ calls'[c].st = "resolved" =>
               /\ store'.access_token = calls[c].tok
               /\ store'.refresh_token = calls[c].tok
               /\ ParseInt(store'.token_expires_at) = now + calls[c].expiresIn * 1000
               /\ store'.user = calls[c].user
               /\ calls[c].tok # Absent /\ calls[c].user \in Users
          /\ calls'[c].st = "rejected" => store' = store
    ]_vars

C21_Witness ==
  \E c \in CallIds :
    /\ calls[c].kind = "register" /\ calls[c].st = "resolved"
    /\ store.access_token = calls[c].tok
    /\ store.user = calls[c].user
    /\ ParseInt(store.token_expires_at) = now + calls[c].expiresIn * 1000
    /\ calls[c].tok > 1

\* C22: isAuthenticated() is true exactly when an access token is stored;
\* the state logout() leaves has none of the four credential fields and
\* isAuthenticated() false.
C22_IsAuthenticated ==
  [][ /\ IsAuthenticated(store') <=> store'.access_token # Absent
      /\ Logout =>
           /\ store'.access_token = Absent
           /\ store'.refresh_token = Absent
           /\ store'.token_expires_at = NoExpiry
           /\ store'.user = "none"
           /\ ~IsAuthenticated(store')
    ]_vars

C22_Witness ==
  /\ store = EmptyStore
  /\ ~IsAuthenticated(store)
  /\ \E c \in CallIds :
       calls[c].st = "fetch" /\ calls[c].auth /\ calls[c].hdr.bearer # Absent
  /\ \A o \in OpIds : ops[o].st = "none"

\* C23 (as claimed): whenever isRefreshing is false, refreshPromise is null.
C23_HandleOnlyWhileRefreshing == ~isRefreshing => refreshPromise = 0

\* the refresh operations call c has started or joined
Refreshes(call) == {call.pro[i] : i \in DOMAIN call.pro} \cup {call.rea[i] : i \in DOMAIN call.rea}

\* C24: a call made with requiresAuth = false never starts or joins a
\* refresh and is dispatched once; a retry attempt starts or joins no
\* refresh and is not dispatched again; every refresh operation is started
\* by a first attempt of an authenticated call, at issue or on its
\* response; and the store is cleared only by a refresh that fails or by
\* logout.
C24_LazyRefreshOnly ==
  [][ /\ \A c \in CallIds :
           ~calls'[c].auth =>
             /\ calls'[c].pro = <<>> /\ calls'[c].rea = <<>>
             /\ calls'[c].sent <= 1 /\ ~calls'[c].isRetry
      /\ \A c \in CallIds :
           calls[c].isRetry /\ calls'[c].st # "done" =>
             /\ calls'[c].pro = calls[c].pro /\ calls'[c].rea = calls[c].rea
             /\ calls'[c].sent = calls[c].sent
      /\ \A o \in OpIds :
           ops[o].st = "none" /\ ops'[o].st # "none" =>
             \E c \in CallIds :
               /\ calls'[c].auth /\ o \in Refreshes(calls'[c])
               /\ ~calls[c].isRetry /\ calls[c].st \in {"idle", "fetch"}
      /\ store # EmptyStore /\ store' = EmptyStore =>
           \/ \E o \in OpIds : Settles(o) /\ ops'[o].st = "rejected"
           \/ Logout
    ]_vars

C24_Witness ==
  \E c \in CallIds :
    /\ calls[c].kind = "login" /\ calls[c].st = "rejected"
    /\ calls[c].status = 401 /\ calls[c].sent = 1
    /\ calls[c].err.type = "AuthenticationError"
    /\ ShouldRefreshToken(store, now)
    /\ \A o \in OpIds : ops[o].st = "none"

\* C27: a call whose response is 2xx resolves once the body read settles,
\* whatever the body; with the parsed JSON when the body is JSON, with an
\* empty object when it is empty or not JSON.
C27_EmptyObjectOnBadBody ==
  [][ \A c \in CallIds :
        calls[c].st = "body" /\ Ok(calls[c].status) /\ calls'[c].st # "body" =>
          /\ calls'[c].st = "resolved"
          /\ calls'[c].body = "unparseable" => calls'[c].value = "{}"
          /\ calls'[c].body = "json" => calls'[c].value = "json"
    ]_vars

C27_Witness ==
  \E c \in CallIds :
    /\ calls[c].st = "resolved" /\ calls[c].status = 200
    /\ calls[c].body = "unparseable" /\ calls[c].value = "{}"

\* C28 (as claimed): a call rejected by a non-2xx response whose body is no
\* JSON rejects with a typed error carrying the response status and the
\* message 'HTTP error <status>'; one rejected by a non-2xx response whose
\* body is JSON rejects with an error carrying the response status.
C28_StatusOfResponse ==
  \A c \in CallIds :
    calls[c].st = "rejected" /\ calls[c].from = "body" =>
      /\ calls[c].body = "unparseable" =>
           /\ calls[c].err.type \in TypedErrors
           /\ calls[c].err.status = calls[c].status
           /\ calls[c].err.msg = HttpErrorMessage(calls[c].status)
      /\ calls[c].body # "unparseable" => calls[c].err.status = calls[c].status

\* the three token fields of a store
TokensOf(s) == <<s.access_token, s.refresh_token, s.token_expires_at>>

\* the three token fields an issuance saved at time t leaves
IssuanceAt(tok, expiresIn, t) == <<tok, tok, ToString(t + expiresIn * 1000)>>

\* C29: every task leaves the three token fields all absent or all present;
\* a task that changes any of them either removes all three or sets all
\* three from the one issuance response (of a refresh, a login or a
\* register) that it has read.
C29_TokensMoveTogether ==
  [][ /\ \/ TokensOf(store') = TokensOf(EmptyStore)
         \/ /\ store'.access_token # Absent
            /\ store'.refresh_token # Absent
            /\ store'.token_expires_at # NoExpiry
      /\ TokensOf(store') # TokensOf(store) =>
           \/ TokensOf(store') = TokensOf(EmptyStore)
           \/ \E o \in OpIds :
                /\ Resolves(o)
                /\ TokensOf(store') = IssuanceAt(ops[o].tok, ops[o].expiresIn, now)
           \/ \E c \in CallIds :
                /\ calls[c].kind # "api" /\ calls[c].st = "body"
                /\ calls'[c].st = "resolved"
                /\ TokensOf(store') = IssuanceAt(calls[c].tok, calls[c].expiresIn, now)
    ]_vars

C29_Witness ==
  \E o \in OpIds :
    /\ JustResolved(o)
    /\ TokensOf(store) = IssuanceAt(ops[o].tok, ops[o].expiresIn, now)
    /\ ops[o].rt # ops[o].tok - 1

\* C30 (as claimed): whenever an access token is stored, a user profile is
\* stored too.
C30_TokenHasProfile ==
  store.access_token # Absent => store.user \in Users

\* the interceptors registered after the default one
Registered == Tail(requestInterceptors)

\* C25: every request dispatched, first attempt or retry, has passed through
\* every registered request interceptor in registration order, each working
\* on what the previous one returned: it carries their marks in that order,
\* and the default interceptor, registered first, has set its Authorization
\* header before any of them saw the request.
C25_RequestInterceptorsInOrder ==
  [][ \A c \in CallIds :
        calls'[c].st = "fetch" /\ calls'[c].sent = calls[c].sent + 1 =>
          /\ Head(requestInterceptors) = "default"
          /\ calls'[c].trace = Registered
          /\ calls'[c].hdr =
               IF \E k \in DOMAIN Registered : Registered[k] = "strip"
               THEN NoHeader
               ELSE DefaultInterceptor(BuildHeaders(calls'[c].auth, store'), store')
    ]_vars

C25_Witness ==
  \E c \in CallIds :
    /\ calls[c].st = "fetch" /\ calls[c].isRetry /\ calls[c].sent = 2
    /\ requestInterceptors = <<"default", "tag", "strip">>
    /\ calls[c].trace = <<"tag", "strip">>
    /\ calls[c].hdr = NoHeader
    /\ store.access_token # Absent

\* C26 (as claimed): a call that resolves has had every registered response
\* interceptor run on its response, in registration order.
C26_ResponseInterceptorsApplied ==
  \A c \in CallIds :
    calls[c].st = "resolved" => calls[c].applied = responseInterceptors

\* C31: the request retried after a 401 and a successful refresh is built
\* from the store as that refresh left it: it is sent in the task in which
\* the refresh resolves, flagged as a retry, and its Authorization header
\* carries the access token of that refresh's issuance, which is the token
\* now stored.  It is never the token the first attempt was sent with: the
\* token of a refresh whose body is still being read is neither stored nor
\* carried by any request in flight.
C31_RetryCarriesRefreshedToken ==
  [][/\ \A o \in OpIds : ops'[o].st = "body" =>
          /\ store'.access_token # ops'[o].tok
          /\ \A c \in CallIds : calls'[c].hdr.bearer # ops'[o].tok
     /\ \A c \in CallIds :
          calls[c].st = "await401" /\ calls'[c].st = "fetch" =>
            /\ Resolves(calls[c].op)
            /\ calls'[c].isRetry
            /\ calls'[c].sent = calls[c].sent + 1
            /\ calls'[c].hdr = [present |-> TRUE, bearer |-> ops[calls[c].op].tok]
            /\ calls'[c].hdr.bearer = store'.access_token]_vars

\* a retry in flight with the token of the refresh that has just resolved,
\* while the other call, sent with the replaced token, is still in flight
C31_Witness ==
  \E c, d \in CallIds, o \in OpIds :
    /\ JustResolved(o)
    /\ calls[c].st = "fetch" /\ calls[c].isRetry /\ calls[c].rea = <<o>>
    /\ calls[c].pro = <<>>
    /\ calls[c].hdr.bearer = ops[o].tok
    /\ calls[d].st = "fetch" /\ ~calls[d].isRetry
    /\ calls[d].hdr.bearer \notin {Absent, store.access_token}

\* C32: when the refresh an authenticated call awaits before its primary
\* request (the proactive refresh) rejects, whether refused by the backend,
\* lost in transport or answered with an unreadable body, the call rejects
\* in the same task and has dispatched no request at all.
C32_ProactiveFailureSendsNothing ==
  [][\A c \in CallIds :
       calls[c].st = "awaitProactive" /\ ops'[calls[c].op].st = "rejected" =>
         /\ calls'[c].st = "rejected"
         /\ calls'[c].from = "awaitProactive"
         /\ calls'[c].sent = 0
         /\ calls'[c].hdr = NoHeader]_vars

\* a call rejected before any dispatch by a proactive refresh whose 2xx body
\* could not be read, next to one rejected by the same refresh
C32_Witness ==
  \E c, d \in CallIds, o \in OpIds :
    /\ c # d
    /\ JustRejected(o) /\ ops[o].err.type = "SyntaxError"
    /\ calls[c].st = "rejected" /\ calls[c].from = "awaitProactive"
    /\ calls[c].pro = <<o>> /\ calls[c].sent = 0
    /\ calls[d].st = "rejected" /\ calls[d].pro = <<o>> /\ calls[d].sent = 0

\* C33: a refresh started while no refresh token is stored rejects in the
\* task that started it, with "No refresh token available"; it sends no
\* request (every refresh request in flight or answered carries a refresh
\* token), invokes no callback, and the store is left as it was.
C33_NoRefreshTokenNoRequest ==
  [][/\ \A o \in OpIds :
          ops'[o].st \in {"fetch", "body"} => ops'[o].rt # Absent
     /\ \A o \in OpIds :
          ops[o].st = "none" /\ ops'[o].st # "none" /\ store.refresh_token = Absent =>
            /\ ops'[o].st = "rejected"
            /\ ops'[o].err = Err("Error", "No refresh token available", 0)
            /\ ops'[o].rt = Absent /\ ops'[o].cb = 0
            /\ store' = store]_vars

\* the second refresh found no refresh token, the first having been refused
\* and the credentials cleared while the other call was in flight
C33_Witness ==
  \E c \in CallIds :
    /\ ops[1].st = "rejected" /\ ops[1].err = NoErr
    /\ JustRejected(2) /\ ops[2].err.msg = "No refresh token available"
    /\ calls[c].st = "rejected" /\ calls[c].rea = <<2>> /\ calls[c].sent = 1
    /\ store = EmptyStore

\* C34: a refresh that has settled, by success, refusal, transport failure,
\* unreadable body or for want of a refresh token, is never handed to a later
\* trigger: a refresh a call begins to await in a step had not settled before
\* that step, and one started in the step read the refresh token stored then.
C34_SettledRefreshNotReused ==
  [][\A c \in CallIds : \A o \in Refreshes(calls'[c]) \ Refreshes(calls[c]) :
       /\ ~Settled(ops[o])
       /\ ops[o].st = "none" =>
            /\ \A d \in CallIds : o \notin Refreshes(calls[d])
            /\ ops'[o].st = "fetch" => ops'[o].rt = store.refresh_token
            /\ ops'[o].st # "fetch" => store.refresh_token = Absent]_vars

\* a third refresh in flight with the stored refresh token after one that
\* was rejected and one that resolved
C34_Witness ==
  \E c \in CallIds :
    /\ ops[1].st = "rejected" /\ ops[2].st = "resolved"
    /\ ops[3].st = "fetch" /\ ops[3].rt = store.refresh_token
    /\ calls[c].st = "await401" /\ calls[c].op = 3
    /\ refreshPromise = 3 /\ isRefreshing

\* C35: an authenticated request that was sent with an access token which a
\* refresh has since replaced, and whose 401 arrives when no refresh is in
\* flight, starts no further refresh: no new request goes to the refresh
\* endpoint for a token that has already been replaced.
C35_NoRefreshForReplacedToken ==
  [][\A c \in CallIds :
       /\ calls[c].st = "fetch" /\ calls[c].auth /\ ~calls[c].isRetry
       /\ calls[c].hdr.bearer # Absent
       /\ store.access_token \notin {Absent, calls[c].hdr.bearer}
       /\ \E o \in OpIds : ops[o].st = "resolved"
       /\ ~isRefreshing
       /\ calls'[c].st = "await401"
       => NoRefreshStarted]_vars

\* no call and no refresh is in progress
Quiescent ==
  /\ InFlight = {}
  /\ \A c \in CallIds : calls[c].st \in {"idle", "resolved", "rejected", "done"}

\* C37: once AuthProvider has mounted, whenever no call and no refresh is in
\* progress its isAuthenticated flag is true exactly when an access token is
\* stored.
C37_FlagAgreesWithStore ==
  ~isLoading /\ Quiescent => (isAuthenticated <=> IsAuthenticated(store))

\* C39: AuthService.isTokenExpiringSoon() and ApiService.shouldRefreshToken()
\* return the same boolean for every stored expiry and every current time,
\* the case of no stored expiry included.
C39_PredicatesAgree ==
  probe.asked => probe.isTokenExpiringSoon = probe.shouldRefreshToken

\* C38: the unauthorized callback is one slot and the last registration
\* wins: a refresh that fails invokes the callback registered last and no
\* other; and when none was ever registered, a refresh that fails still
\* leaves the credentials cleared and its waiters rejected.
C38_LastRegistrationWins ==
  \A o \in OpIds : JustRejected(o) =>
    /\ onUnauthorizedCallback # NoCallback =>
         ops[o].invoked = <<onUnauthorizedCallback>>
    /\ onUnauthorizedCallback = NoCallback =>
         /\ store = EmptyStore
         /\ \A c \in CallIds : o \in Refreshes(calls[c]) => calls[c].st = "rejected"

\* a public call that has been made and has not settled
Pending(c) == calls[c].st \in {"awaitProactive", "fetch", "await401", "body"}

\* C36: provided every fetch and every body read eventually settles, every
\* public call that has been made eventually resolves or rejects; and no
\* call goes through refresh and retry more than once: it awaits at most one
\* proactive and one reactive refresh and dispatches at most two requests.
C36_EveryCallSettles ==
  /\ \A c \in CallIds : Pending(c) ~> calls[c].st \in {"resolved", "rejected"}
  /\ [](\A c \in CallIds :
          Len(calls[c].pro) <= 1 /\ Len(calls[c].rea) <= 1 /\ calls[c].sent <= 2)

\* a call resolved by its retry, after a proactive and a reactive refresh
\* it awaited together with the other call
C36_Witness ==
  \E c, d \in CallIds :
    /\ c # d
    /\ calls[c].st = "resolved" /\ calls[c].isRetry /\ calls[c].sent = 2
    /\ Len(calls[c].pro) = 1 /\ Len(calls[c].rea) = 1
    /\ calls[d].pro = calls[c].pro /\ Pending(d)

====
